---- MODULE Spec2Model ----
(***************************************************************************)
(* OrdinalEncoder of feature_engine/encoding/ordinal.py as a state         *)
(* machine: one encoder instance, its attributes, and the calls fit,       *)
(* transform and inverse_transform made on it in any order.                *)
(*                                                                         *)
(* Representation.  Every dataframe cell is a string: a category name, the *)
(* missing value NaN, or (in a numeric column) a numeral.  The codes kept  *)
(* in encoder_dict_ are integers; CodeStr / CodeOf convert between a code  *)
(* and the cell that holds it.  A dataframe's index is the RangeIndex      *)
(* 1..nrows; a target series carries its own index labels (idx), as a      *)
(* pandas Series does.                                                     *)
(***************************************************************************)
EXTENDS Integers, Sequences, FiniteSets, TLC

VARIABLES
    encoding_method,  \* self.encoding_method                      (line 59)
    init_variables,   \* the constructor's `variables` argument    (line 54)
    variables,        \* self.variables                       (lines 60, 83)
    encoder_dict_,    \* self.encoder_dict_                  (lines 97-109)
    input_shape_,     \* self.input_shape_                       (line 111)
    last,             \* the most recent call: arguments and outcome
    fitted_once,      \* some call to fit has returned normally
    train,            \* the X of the most recent fit that returned normally
    data              \* the caller's training set (X, y) (SpecTrain only)

vars == <<encoding_method, init_variables, variables, encoder_dict_,
          input_shape_, last, fitted_once, train, data>>

----------------------------------------------------------------------------
(* Bounds of the model. *)

\* Rows of a dataframe passed to any call of the lifecycle specification Spec.
MaxLifeRows == 1

\* Rows of the training set of the specification SpecTrain.
MaxRows == 3

----------------------------------------------------------------------------
(* Values. *)

Categories == {"blue", "red", "grey"}
LifeCategories == {"blue", "red"}
TargetValues == {0, 1}
NaN == "NaN"
Numerals == <<"0", "1", "2", "3", "4", "5">>

Range(s) == {s[i] : i \in DOMAIN s}

\* The numeric cell holding integer code c, and the code a cell holds
\* (a cell that is no numeral of a code holds none: -1).
CodeStr(c) == Numerals[c + 1]
CodeOf(cell) ==
    IF cell \in Range(Numerals)
    THEN (CHOOSE i \in DOMAIN Numerals : Numerals[i] = cell) - 1
    ELSE 0 - 1

None == [isnone |-> TRUE, list |-> <<>>]
List(s) == [isnone |-> FALSE, list |-> s]

NoDict == [present |-> FALSE, map |-> <<>>]
Dict(m) == [present |-> TRUE, map |-> m]

NoShape == <<>>

NotAFrame ==
    [isdf |-> FALSE, columns |-> <<>>, dtype |-> <<>>, nrows |-> 0, data |-> <<>>]

NoneY == [given |-> FALSE, idx |-> <<>>, val |-> <<>>]

----------------------------------------------------------------------------
(* The dataframes and targets the calls are made with. *)

\* Column "b" of a generated frame is an object column: column "a" with the
\* categories rotated, so that the two columns learn different mappings; it
\* holds no NaN.
Rotate(v) ==
    CASE v = "blue" -> "red"
      [] v = "red" -> "grey"
      [] v = "grey" -> "blue"
      [] OTHER -> "blue"

\* Column "a": object dtype over the categories, object dtype with a NaN in
\* its last row, or numeric.
ColumnsA(cats, n) ==
    {[dtype |-> "O", cells |-> d] : d \in [1..n -> cats]}
    \cup {[dtype |-> "O", cells |-> [i \in 1..n |-> IF i = n THEN NaN ELSE "blue"]]
            : z \in (IF n > 0 THEN {1} ELSE {})}
    \cup {[dtype |-> "num", cells |-> [i \in 1..n |-> "0"]]}

FrameA(n, a) ==
    [isdf |-> TRUE, columns |-> <<"a">>, nrows |-> n,
     dtype |-> [c \in {"a"} |-> a.dtype],
     data |-> [c \in {"a"} |-> a.cells]]

FrameAB(n, a) ==
    [isdf |-> TRUE, columns |-> <<"a", "b">>, nrows |-> n,
     dtype |-> [c \in {"a", "b"} |-> IF c = "a" THEN a.dtype ELSE "O"],
     data |-> [c \in {"a", "b"} |->
                 IF c = "a" THEN a.cells ELSE [i \in 1..n |-> Rotate(a.cells[i])]]]

\* The frames of n rows: column "a" alone over the categories cats, and
\* columns "a" and "b" with "a" over the categories cats2.
FramesOfRows(cats, cats2, n) ==
    {FrameA(n, a) : a \in ColumnsA(cats, n)} \cup {FrameAB(n, a) : a \in ColumnsA(cats2, n)}

Frames(cats, cats2, maxrows) == UNION {FramesOfRows(cats, cats2, n) : n \in 0..maxrows}

\* A target series for a frame of n rows carries the frame's index labels,
\* in the frame's order (Aligned) or in another order (Reversed); None is
\* also a possible argument.
Aligned(n) == [i \in 1..n |-> i]
Reversed(n) == [i \in 1..n |-> n + 1 - i]

Targets(n, orders) ==
    {NoneY} \cup
    {[given |-> TRUE, idx |-> p, val |-> v] : p \in orders, v \in [1..n -> TargetValues]}

\* Constructor arguments for `variables`: None, a bare name, a list.
VariableArgs ==
    {[kind |-> "none", names |-> <<>>],
     [kind |-> "name", names |-> <<"a">>],
     [kind |-> "list", names |-> <<"b">>],
     [kind |-> "list", names |-> <<"a", "b">>]}

----------------------------------------------------------------------------
(* Collaborators imported by ordinal.py (lines 5-7); their code is not part *)
(* of the file, they follow the contracts of the specification, section 6.  *)

\* normalize_variable_list: None passes through, a bare name is wrapped into
\* a one-element list, a list passes through.
_define_variables(arg) ==
    IF arg.kind = "none" THEN None ELSE List(arg.names)

\* check_is_dataframe.
_is_dataframe(X) == X.isdf

\* select_categorical_columns: with nothing requested, every object column of
\* X in column order; otherwise the request, provided each name is an object
\* column of X.
_find_categorical_variables(X, requested) ==
    LET IsCategorical(c) == X.dtype[c] = "O"
    IN  IF requested.isnone \/ requested.list = <<>>
        THEN [ok |-> TRUE, value |-> List(SelectSeq(X.columns, IsCategorical))]
        ELSE IF \A c \in Range(requested.list) :
                    c \in Range(X.columns) /\ X.dtype[c] = "O"
             THEN [ok |-> TRUE, value |-> requested]
             ELSE [ok |-> FALSE, value |-> requested]

\* check_no_missing_values: TRUE when a listed column of X holds a NaN.
_check_contains_na(X, columns) ==
    \E c \in Range(columns) : \E i \in 1..X.nrows : X.data[c][i] = NaN

\* _validate codec: TRUE when the dictionary passes (it is not empty and no
\* column's sub-mapping is empty).
_check_encoding_dictionary(d) ==
    /\ DOMAIN d # {}
    /\ \A c \in DOMAIN d : DOMAIN d[c] # {}

----------------------------------------------------------------------------
(* pandas operations used by fit. *)

\* pd.concat([X, y], axis=1) (line 93): the rows are joined on their index
\* labels.  Row i of X carries label i; its target is the value y holds under
\* that label.
concat_target(X, y) ==
    [i \in 1..X.nrows |-> y.val[CHOOSE p \in DOMAIN y.idx : y.idx[p] = i]]

\* Series.unique() (line 105): the distinct values in order of first
\* appearance.
RECURSIVE unique_from(_, _, _)
unique_from(col, i, acc) ==
    IF i > Len(col) THEN acc
    ELSE unique_from(col, i + 1,
                     IF col[i] \in Range(acc) THEN acc ELSE Append(acc, col[i]))

unique_last_seen(col) ==
    LET u == unique_from(col, 1, <<>>)
    IN  [i \in DOMAIN u |-> u[Len(u) + 1 - i]]

unique(col) == unique_from(col, 1, <<>>)

\* groupby([var])['target'].mean() (line 102): per category the sum and the
\* count of the targets of its rows.  A mean is the fraction sum / count;
\* means are compared as fractions.
RECURSIVE SumOver(_, _)
SumOver(target, rows) ==
    IF rows = {} THEN 0
    ELSE LET i == CHOOSE j \in rows : TRUE
         IN  target[i] + SumOver(target, rows \ {i})

groupby_mean(col, target) ==
    [k \in Range(col) |->
        LET rows == {i \in DOMAIN col : col[i] = k}
        IN  [sum |-> SumOver(target, rows), count |-> Cardinality(rows)]]

MeanLess(m, n) == m.sum * n.count < n.sum * m.count

\* .sort_values(ascending=True).index (line 102): the categories in an order
\* of non-decreasing mean.  The order among equal means is not fixed by the
\* call (the default sort is not stable), so every such order is possible.
sort_values_ascending(means) ==
    {t \in [1..Cardinality(DOMAIN means) -> DOMAIN means] :
        /\ \A i, j \in DOMAIN t : i # j => t[i] # t[j]
        /\ \A i, j \in DOMAIN t : i < j => ~MeanLess(means[t[j]], means[t[i]])}

----------------------------------------------------------------------------
(* OrdinalEncoder.fit, lines 79-113. *)

\* The same with the codes counted from 1, as enumerate(t, 1) would give.
enumerate_from_one(t) ==
    [k \in Range(t) |-> CHOOSE i \in DOMAIN t : t[i] = k /\ \A j \in DOMAIN t : t[j] = k => j <= i]

\* {k: i for i, k in enumerate(t, 0)} (line 107); a later duplicate of a key
\* would overwrite an earlier one.
enumerate_dict(t) ==
    [k \in Range(t) |->
        (CHOOSE i \in DOMAIN t : t[i] = k /\ \A j \in DOMAIN t : t[j] = k => j <= i) - 1]

\* The sub-mappings lines 101-107 can build for one variable.
sub_mappings(method, X, y, var) ==
    IF method = "ordered"
    THEN {enumerate_dict(t) :
             t \in sort_values_ascending(groupby_mean(X.data[var], concat_target(X, y)))}
    ELSE {enumerate_dict(unique(X.data[var]))}

\* The dictionaries the loop of lines 97-107 can build: starting from the
\* empty dictionary d, each variable in turn is given its sub-mapping.
RECURSIVE loop_mappings(_, _, _, _, _, _)
loop_mappings(method, X, y, columns, i, d) ==
    IF i > Len(columns) THEN {d}
    ELSE UNION {loop_mappings(method, X, y, columns, i + 1, (columns[i] :> m) @@ d) :
                   m \in sub_mappings(method, X, y, columns[i])}

find_mappings(method, X, y, columns) == loop_mappings(method, X, y, columns, 1, <<>>)

Raise(self, kind, step) == [err |-> kind, step |-> step, self |-> self]
Return(self) == [err |-> "none", step |-> 0, self |-> self]

\* Lines 97 and 107-113: the dictionary is assigned to the attribute, then
\* validated, then the shape is recorded.
store_mapping(self, X, d) ==
    LET assigned == [self EXCEPT !.encoder_dict_ = Dict(d)]
    IN  IF ~_check_encoding_dictionary(d)
        THEN Raise(assigned, "DataError", 6)
        ELSE Return([assigned EXCEPT !.input_shape_ = <<X.nrows, Len(X.columns)>>])

\* fit with the target check of lines 89-91 made before the missing-value
\* check of line 86.
fit_target_check_first(self, X, y) ==
    IF ~_is_dataframe(X) THEN {Raise(self, "InputTypeError", 1)}
    ELSE LET found == _find_categorical_variables(X, self.variables)
         IN  IF ~found.ok THEN {Raise(self, "ConfigError", 2)}
             ELSE LET resolved == [self EXCEPT !.variables = found.value]
                  IN  IF self.encoding_method = "ordered" /\ ~y.given
                      THEN {Raise(resolved, "ConfigError", 4)}
                      ELSE IF _check_contains_na(X, resolved.variables.list)
                      THEN {Raise(resolved, "DataError", 3)}
                      ELSE {store_mapping(resolved, X, d) :
                               d \in find_mappings(self.encoding_method, X, y,
                                                   resolved.variables.list)}

\* The outcomes of fit(X, y) on the encoder `self`: the error raised (or
\* "none"), the step that raised it, and the encoder's attributes afterwards.
fit(self, X, y) ==
    IF ~_is_dataframe(X) THEN {Raise(self, "InputTypeError", 1)}               \* line 80
    ELSE LET found == _find_categorical_variables(X, self.variables)
         IN  IF ~found.ok THEN {Raise(self, "ConfigError", 2)}                 \* line 83
             ELSE LET resolved == [self EXCEPT !.variables = found.value]      \* line 83
                  IN  IF _check_contains_na(X, resolved.variables.list)        \* line 86
                      THEN {Raise(resolved, "DataError", 3)}
                      ELSE IF self.encoding_method = "ordered" /\ ~y.given     \* lines 89-91
                      THEN {Raise(resolved, "ConfigError", 4)}
                      ELSE {store_mapping(resolved, X, d) :
                               d \in find_mappings(self.encoding_method, X, y,
                                                   resolved.variables.list)}

----------------------------------------------------------------------------
(* BaseCategoricalTransformer.transform and .inverse_transform, to which    *)
(* lines 116-124 delegate; the base class is imported (line 7), its code is *)
(* not part of the file, and it follows the specification, section 4.1.     *)

Fail(kind) == [err |-> kind, out |-> NotAFrame]
Ok(X) == [err |-> "none", out |-> X]

\* The codec is fitted when it holds an EncoderDictionary.
check_is_fitted(self) == self.encoder_dict_.present

\* check_columns_match_training against the recorded InputShape.
_check_input_matches_training_df(X, ncols) == Len(X.columns) = ncols

\* Series.map with a dictionary: a value that is no key becomes missing.
map_codes(cells, m) ==
    [i \in DOMAIN cells |->
        IF cells[i] \in DOMAIN m THEN CodeStr(m[cells[i]]) ELSE NaN]

\* Series.map with the inverted dictionary {code: category}.
map_categories(cells, m) ==
    [i \in DOMAIN cells |->
        IF \E k \in DOMAIN m : m[k] = CodeOf(cells[i])
        THEN CHOOSE k \in DOMAIN m : m[k] = CodeOf(cells[i])
        ELSE NaN]

\* The frame X with each listed column replaced (a copy; X is not modified).
replace_columns(X, columns, dtype, newcells) ==
    [X EXCEPT !.dtype = [c \in DOMAIN X.dtype |->
                            IF c \in Range(columns) THEN dtype ELSE X.dtype[c]],
              !.data = [c \in DOMAIN X.data |->
                            IF c \in Range(columns) THEN newcells[c] ELSE X.data[c]]]

\* Reading self.input_shape_ or a column that does not exist raises.
missing_attribute(self, X) ==
    IF self.input_shape_ = NoShape THEN "AttributeError"
    ELSE IF \E c \in Range(self.variables.list) :
                c \notin Range(X.columns) \/ c \notin DOMAIN self.encoder_dict_.map
    THEN "KeyError"
    ELSE "none"

BaseCategoricalTransformer_transform(self, X) ==
    IF ~check_is_fitted(self) THEN Fail("NotFittedError")
    ELSE IF ~_is_dataframe(X) THEN Fail("InputTypeError")
    ELSE IF self.input_shape_ = NoShape THEN Fail("AttributeError")
    ELSE IF ~_check_input_matches_training_df(X, self.input_shape_[2]) THEN Fail("DataError")
    ELSE IF missing_attribute(self, X) # "none" THEN Fail(missing_attribute(self, X))
    ELSE IF _check_contains_na(X, self.variables.list) THEN Fail("DataError")
    ELSE LET Coded == [c \in Range(self.variables.list) |->
                         map_codes(X.data[c], self.encoder_dict_.map[c])]
         IN  Ok(replace_columns(X, self.variables.list, "num", Coded))

BaseCategoricalTransformer_inverse_transform(self, X) ==
    IF ~check_is_fitted(self) THEN Fail("NotFittedError")
    ELSE IF ~_is_dataframe(X) THEN Fail("InputTypeError")
    ELSE IF self.input_shape_ = NoShape THEN Fail("AttributeError")
    ELSE IF ~_check_input_matches_training_df(X, self.input_shape_[2]) THEN Fail("DataError")
    ELSE IF missing_attribute(self, X) # "none" THEN Fail(missing_attribute(self, X))
    ELSE LET Decoded == [c \in Range(self.variables.list) |->
                           map_categories(X.data[c], self.encoder_dict_.map[c])]
         IN  Ok(replace_columns(X, self.variables.list, "O", Decoded))

----------------------------------------------------------------------------
(* OrdinalEncoder.transform and .inverse_transform, lines 116-124. *)

transform(self, X) == BaseCategoricalTransformer_transform(self, X)

inverse_transform(self, X) == BaseCategoricalTransformer_inverse_transform(self, X)

----------------------------------------------------------------------------
(* The state machine. *)

Self ==
    [encoding_method |-> encoding_method, variables |-> variables,
     encoder_dict_ |-> encoder_dict_, input_shape_ |-> input_shape_]

NoCall ==
    [op |-> "init", X |-> NotAFrame, y |-> NoneY, err |-> "none", step |-> 0,
     out |-> NotAFrame, orig |-> NotAFrame, refit |-> FALSE]

NoData == [X |-> NotAFrame, y |-> NoneY]

\* OrdinalEncoder.__init__, lines 54-60, with a recognised encoding_method.
Constructed(args) ==
    /\ encoding_method \in {"ordered", "arbitrary"}
    /\ init_variables \in args
    /\ variables = _define_variables(init_variables)
    /\ encoder_dict_ = NoDict
    /\ input_shape_ = NoShape
    /\ last = NoCall
    /\ fitted_once = FALSE
    /\ train = NotAFrame

Init ==
    /\ Constructed(VariableArgs)
    /\ data = NoData

\* A call fit(X, y).
Fit(X, y) ==
    \E r \in fit(Self, X, y) :
        /\ variables' = r.self.variables
        /\ encoder_dict_' = r.self.encoder_dict_
        /\ input_shape_' = r.self.input_shape_
        /\ last' = [op |-> "fit", X |-> X, y |-> y, err |-> r.err, step |-> r.step,
                    out |-> NotAFrame, orig |-> NotAFrame, refit |-> fitted_once]
        /\ fitted_once' = (fitted_once \/ r.err = "none")
        /\ train' = IF r.err = "none" THEN X ELSE train
        /\ UNCHANGED <<encoding_method, init_variables, data>>

\* A call transform(X): the encoder is only read.
Transform(X) ==
    LET r == transform(Self, X)
    IN  /\ last' = [op |-> "transform", X |-> X, y |-> NoneY, err |-> r.err, step |-> 0,
                    out |-> r.out, orig |-> NotAFrame, refit |-> FALSE]
        /\ UNCHANGED <<encoding_method, init_variables, variables, encoder_dict_,
                       input_shape_, fitted_once, train, data>>

\* A call inverse_transform(X); orig is the frame X was obtained from by
\* transform, when it was.
InverseTransform(X, orig) ==
    LET r == inverse_transform(Self, X)
    IN  /\ last' = [op |-> "inverse_transform", X |-> X, y |-> NoneY, err |-> r.err,
                    step |-> 0, out |-> r.out, orig |-> orig, refit |-> FALSE]
        /\ UNCHANGED <<encoding_method, init_variables, variables, encoder_dict_,
                       input_shape_, fitted_once, train, data>>

\* inverse_transform of what the preceding transform returned.
InverseOfLast ==
    /\ last.op = "transform"
    /\ last.err = "none"
    /\ InverseTransform(last.out, last.X)

LifeFrames == Frames(LifeCategories, LifeCategories, MaxLifeRows) \cup {NotAFrame}

\* Arguments of inverse_transform: the frames whose column "a" is numeric.
CodedFrames == {X \in LifeFrames : X.isdf => X.dtype["a"] = "num"}

\* The lifecycle: any call, with any argument, in any order.
Next ==
    \/ \E X \in LifeFrames : \E y \in Targets(X.nrows, {Aligned(X.nrows)}) : Fit(X, y)
    \/ \E X \in LifeFrames : Transform(X)
    \/ \E X \in CodedFrames : InverseTransform(X, NotAFrame)
    \/ InverseOfLast

Spec == Init /\ [][Next]_vars

----------------------------------------------------------------------------
(* One training set: the encoder is fitted on the caller's training set,   *)
(* drawn from every frame of at most MaxRows rows, and then applied to it   *)
(* and to one-row frames of the same columns; it may also be fitted on one  *)
(* other, one-row, training set in between.                                 *)

TrainFrames == Frames(Categories, LifeCategories, MaxRows)

ProbeFrames(X) ==
    IF ~X.isdf THEN {}
    ELSE {IF Len(X.columns) = 1 THEN FrameA(1, a) ELSE FrameAB(1, a) :
             a \in {[dtype |-> "O", cells |-> <<k>>] : k \in Categories}}

InitTrain ==
    /\ Constructed({[kind |-> "none", names |-> <<>>]})
    /\ data \in UNION {{[X |-> X, y |-> y] :
                            y \in Targets(X.nrows, {Aligned(X.nrows), Reversed(X.nrows)})} :
                          X \in TrainFrames}

FitData == Fit(data.X, data.y)

\* A fit on another training set: one row holding "grey" in column "a",
\* with the target 0.
FitOther ==
    /\ data.X.isdf
    /\ Fit(IF Len(data.X.columns) = 1
           THEN FrameA(1, [dtype |-> "O", cells |-> <<"grey">>])
           ELSE FrameAB(1, [dtype |-> "O", cells |-> <<"grey">>]),
           [given |-> TRUE, idx |-> <<1>>, val |-> <<0>>])

TransformData == Transform(data.X)

TransformProbe == \E X \in ProbeFrames(data.X) : Transform(X)

NextTrain ==
    \/ FitData
    \/ FitOther
    \/ TransformData
    \/ TransformProbe
    \/ InverseOfLast

SpecTrain == InitTrain /\ [][NextTrain]_vars

----------------------------------------------------------------------------
(* Properties. *)

FitReturned == last.op = "fit" /\ last.err = "none"

FitRaised == last.op = "fit" /\ last.err # "none"

VariableList == Range(variables.list)

SubMapping(var) == encoder_dict_.map[var]

Codes(var) == {SubMapping(var)[k] : k \in DOMAIN SubMapping(var)}

\* The row of a column in which category k first occurs.
FirstRow(col, k) == CHOOSE i \in DOMAIN col : col[i] = k /\ \A j \in 1..(i - 1) : col[j] # k

\* C1: after any successful fit (either method, a re-fit included), for every
\* column of VariableList the categories with a code are exactly the distinct
\* values the column held in the frame passed to that fit, their codes are
\* exactly 0 .. k-1 for k the number of those values, and no two categories
\* share a code.
C1_CodesAreZeroToKMinusOne ==
    FitReturned =>
        /\ encoder_dict_.present
        /\ DOMAIN encoder_dict_.map = VariableList
        /\ \A var \in VariableList :
              LET seen == Range(last.X.data[var])
              IN  /\ DOMAIN SubMapping(var) = seen
                  /\ Codes(var) = 0..(Cardinality(seen) - 1)
                  /\ \A c1, c2 \in seen :
                        SubMapping(var)[c1] = SubMapping(var)[c2] => c1 = c2

\* C1's case: a re-fit, under the ordered method, on a column of three
\* distinct categories.
C1_Witness ==
    /\ FitReturned
    /\ last.refit
    /\ encoding_method = "ordered"
    /\ \E var \in VariableList : Cardinality(Range(last.X.data[var])) = 3

\* C2: after a successful fit under the ordered method, a category whose mean
\* target is lower has the lower code, the mean being taken over the rows
\* holding the category with the i-th target value paired with the i-th row.
C2_OrderedByPositionalMean ==
    (FitReturned /\ encoding_method = "ordered") =>
        \A var \in VariableList :
            LET means == groupby_mean(last.X.data[var], last.y.val)
            IN  \A A, B \in DOMAIN means :
                    MeanLess(means[A], means[B]) => SubMapping(var)[A] < SubMapping(var)[B]

\* What line 93 gives instead: the same with each row paired with the target
\* value that carries the row's index label.
OrderedByIndexLabelMean ==
    (FitReturned /\ encoding_method = "ordered") =>
        \A var \in VariableList :
            LET means == groupby_mean(last.X.data[var], concat_target(last.X, last.y))
            IN  \A A, B \in DOMAIN means :
                    MeanLess(means[A], means[B]) => SubMapping(var)[A] < SubMapping(var)[B]

\* C3: after a successful fit under the arbitrary method, the code of a
\* category is the number of distinct categories that first occur in an
\* earlier row, whatever y is.
C3_ArbitraryFirstSeen ==
    (FitReturned /\ encoding_method = "arbitrary") =>
        \A var \in VariableList :
            LET col == last.X.data[var]
            IN  \A k \in Range(col) :
                    SubMapping(var)[k] =
                        Cardinality({c \in Range(col) : FirstRow(col, c) < FirstRow(col, k)})

\* C3's case: a target was passed, and a category seen first is repeated
\* before a second one appears, which gets code 1.
C3_Witness ==
    /\ FitReturned
    /\ encoding_method = "arbitrary"
    /\ last.y.given
    /\ \E var \in VariableList :
          LET col == last.X.data[var]
          IN  /\ Len(col) = 3
              /\ col[1] = col[2]
              /\ col[3] # col[1]
              /\ SubMapping(var)[col[3]] = 1

\* C4: on a fitted codec (some fit has returned normally), transform followed
\* by inverse_transform succeeds and gives back every cell of a VariableList
\* column that holds a category the column held during fit.
C4_RoundTrip ==
    (fitted_once /\ last.op = "inverse_transform" /\ last.orig.isdf) =>
        /\ last.err = "none"
        /\ \A var \in VariableList : \A i \in 1..last.orig.nrows :
              (var \in DOMAIN train.data /\ last.orig.data[var][i] \in Range(train.data[var]))
                  => last.out.data[var][i] = last.orig.data[var][i]

\* The round trip in the states whose most recent call of fit returned
\* normally.
RoundTripWhileLastFitReturned ==
    (last.op = "inverse_transform" /\ last.orig.isdf
        /\ encoder_dict_.present /\ _check_encoding_dictionary(encoder_dict_.map)) =>
        /\ last.err = "none"
        /\ \A var \in VariableList : \A i \in 1..last.orig.nrows :
              (var \in DOMAIN train.data /\ last.orig.data[var][i] \in Range(train.data[var]))
                  => last.out.data[var][i] = last.orig.data[var][i]

\* C5: on a fitted codec, transform of a frame that passes the frame, column
\* and missing-value checks succeeds; a cell of a VariableList column whose
\* category is absent from the learned sub-mapping becomes missing, and a
\* cell whose category was seen during fit becomes that category's code.
C5_UnseenBecomesMissing ==
    (fitted_once /\ last.op = "transform" /\ last.X.isdf
        /\ Len(last.X.columns) = input_shape_[2]
        /\ ~_check_contains_na(last.X, variables.list)) =>
        /\ last.err = "none"
        /\ \A var \in VariableList : \A i \in 1..last.X.nrows :
              LET cell == last.X.data[var][i]
              IN  /\ cell \notin DOMAIN SubMapping(var) => last.out.data[var][i] = NaN
                  /\ (var \in DOMAIN train.data /\ cell \in Range(train.data[var])) =>
                        /\ cell \in DOMAIN SubMapping(var)
                        /\ last.out.data[var][i] = CodeStr(SubMapping(var)[cell])

\* The same with "seen during fit" read as "a key of the learned sub-mapping".
TransformFollowsSubMapping ==
    (fitted_once /\ last.op = "transform" /\ last.X.isdf
        /\ Len(last.X.columns) = input_shape_[2]
        /\ ~_check_contains_na(last.X, variables.list)) =>
        /\ last.err = "none"
        /\ \A var \in VariableList : \A i \in 1..last.X.nrows :
              LET cell == last.X.data[var][i]
              IN  last.out.data[var][i] =
                      IF cell \in DOMAIN SubMapping(var)
                      THEN CodeStr(SubMapping(var)[cell]) ELSE NaN

\* C6: a call of fit that raises leaves variables, encoder_dict_ and
\* input_shape_ as they were before the call.
C6_NoPartialMutation ==
    [][(last'.op = "fit" /\ last'.err # "none") =>
          /\ variables' = variables
          /\ encoder_dict_' = encoder_dict_
          /\ input_shape_' = input_shape_]_vars

\* C7: as long as no call of fit has returned normally, transform and
\* inverse_transform raise NotFittedError; and only a fit that returns
\* normally makes the codec fitted.
C7_NotFittedUntilFitReturns ==
    /\ (last.op \in {"transform", "inverse_transform"} /\ ~fitted_once)
          => last.err = "NotFittedError"
    /\ fitted_once => input_shape_ # NoShape

\* C8: after a second successful fit, VariableList and EncoderDictionary are
\* what a freshly constructed codec with the same constructor arguments holds
\* after the same fit.
Fresh ==
    [encoding_method |-> encoding_method, variables |-> _define_variables(init_variables),
     encoder_dict_ |-> NoDict, input_shape_ |-> NoShape]

C8_RefitEqualsFreshFit ==
    (FitReturned /\ last.refit) =>
        \E r \in fit(Fresh, last.X, last.y) :
            /\ r.err = "none"
            /\ r.self.variables = variables
            /\ r.self.encoder_dict_ = encoder_dict_

\* C9: fit makes its checks in the order frame (InputTypeError), variables
\* (ConfigError), missing values (DataError), target (ConfigError); the first
\* check that fails decides the error, and encoder_dict_ is untouched by a
\* call that fails one of them; in particular fit under the ordered method
\* without a target never returns normally.
C9_ChecksInOrder ==
    [][last'.op = "fit" =>
          LET X == last'.X
              found == _find_categorical_variables(X, variables)
              badframe == ~_is_dataframe(X)
              badvars == ~badframe /\ ~found.ok
              hasna == ~badframe /\ ~badvars /\ _check_contains_na(X, found.value.list)
              noy == encoding_method = "ordered" /\ ~last'.y.given
          IN  /\ badframe => last'.err = "InputTypeError"
              /\ badvars => last'.err = "ConfigError"
              /\ hasna => last'.err = "DataError"
              /\ (~badframe /\ ~badvars /\ ~hasna /\ noy) => last'.err = "ConfigError"
              /\ noy => last'.err # "none"
              /\ (badframe \/ badvars \/ hasna \/ noy) => encoder_dict_' = encoder_dict_]_vars

\* C9's case: a frame with a missing value and no target, under the ordered
\* method: the missing value is reported, not the missing target.
C9_Witness ==
    /\ last.op = "fit"
    /\ encoding_method = "ordered"
    /\ ~last.y.given
    /\ last.X.isdf
    /\ last.err = "DataError"
    /\ last.step = 3
    /\ _check_contains_na(last.X, variables.list)

\* C10: fit raises DataError exactly when the dictionary it built is empty or
\* has an empty sub-mapping; so a fitted codec holds, for every column of
\* VariableList, a sub-mapping with at least one category.
C10_FittedHasNoEmptySubMapping ==
    /\ (last.op = "fit" /\ last.step \in {0, 6}) =>
          (last.err = "DataError" <=> ~_check_encoding_dictionary(encoder_dict_.map))
    /\ fitted_once =>
          /\ encoder_dict_.present
          /\ \A var \in VariableList :
                var \in DOMAIN encoder_dict_.map /\ DOMAIN SubMapping(var) # {}

\* The same for the states reached by a fit that returned normally.
NoEmptySubMappingAfterFitReturned ==
    FitReturned =>
        /\ encoder_dict_.present
        /\ \A var \in VariableList :
              var \in DOMAIN encoder_dict_.map /\ DOMAIN SubMapping(var) # {}

====
